---- MODULE Spec2Model ----
(***************************************************************************)
(* Rule-evaluation core of homectl-server (src/core/expr.rs).             *)
(*                                                                         *)
(* Strings are sequences of one-character strings, so that formatting a   *)
(* dotted path, lower-casing a name and splitting a path into pointer     *)
(* tokens are computed character by character.                            *)
(*                                                                         *)
(* An evalexpr Value is a record [t |-> kind, v |-> payload]; a           *)
(* serde_json::Value is a record [t |-> kind, v |-> payload] with the     *)
(* kinds "Null", "Bool", "Number", "String", "Array", "Object".           *)
(*                                                                         *)
(* Specifications:                                                         *)
(*   Spec      one evaluation of eval_action_expr;                         *)
(*   SpecDiff  one evaluation whose statements assign device paths;        *)
(*   SpecSeq   evaluations one after the other, sharing the cache;         *)
(*   SpecCache overlapping calls of the cached state_to_eval_context.      *)
(***************************************************************************)
EXTENDS Integers, Sequences, FiniteSets, TLC

(***************************************************************************)
(* Bounds of the model.                                                    *)
(***************************************************************************)
MaxStmts == 3     \* statements of one expression (sub-expressions of a chain)
MaxCalls == 2     \* completed state_to_eval_context calls per caller (SpecCache)

(***************************************************************************)
(* String literals.                                                        *)
(***************************************************************************)
S_devices    == <<"d","e","v","i","c","e","s">>
S_scenes     == <<"s","c","e","n","e","s">>
S_groups     == <<"g","r","o","u","p","s">>
S_scene      == <<"s","c","e","n","e">>
S_state      == <<"s","t","a","t","e">>
S_group_keys == <<"g","r","o","u","p","_","k","e","y","s">>
S_hue        == <<"h","u","e">>
S_ikea       == <<"i","k","e","a">>
S_on         == <<"o","n">>
S_bri        == <<"b","r","i">>
S_Lamp_1     == <<"L","a","m","p"," ","1">>
S_lamp_1     == <<"l","a","m","p","_","1">>
S_LAMP_1     == <<"L","A","M","P","_","1">>
S_a_b        == <<"a",".","b">>
S_ghost      == <<"g","h","o","s","t">>
S_evening    == <<"e","v","e","n","i","n","g">>
S_day        == <<"d","a","y">>
S_relax      == <<"r","e","l","a","x">>
S_kitchen    == <<"k","i","t","c","h","e","n">>
S_hall       == <<"h","a","l","l">>
S_power      == <<"p","o","w","e","r">>
S_r1         == <<"r","1">>
S_x          == <<"x">>
S_TV         == <<"T","V">>
S_tv         == <<"t","v">>
S_Day        == <<"D","a","y">>
S_tags       == <<"t","a","g","s">>
S_dot        == <<".">>

Digits == <<"0","1","2","3","4","5","6","7","8","9">>

\* i.to_string() for a small index, as format!("{}.{}", prefix, i) prints it
IndexToString(i) == <<Digits[i + 1]>>

(***************************************************************************)
(* char::to_lowercase on the letters the model uses.                       *)
(***************************************************************************)
to_lowercase_char(c) ==
    CASE c = "A" -> "a"
      [] c = "L" -> "l"
      [] c = "M" -> "m"
      [] c = "P" -> "p"
      [] c = "B" -> "b"
      [] c = "D" -> "d"
      [] c = "T" -> "t"
      [] c = "V" -> "v"
      [] OTHER -> c

to_lowercase(s) == [i \in 1..Len(s) |-> to_lowercase_char(s[i])]

\* str::replace(from, to) for a one-character pattern
replace_char(s, from, to) == [i \in 1..Len(s) |-> IF s[i] = from THEN to ELSE s[i]]

\* a normalization that lower-cases and keeps the spaces
name_to_evalexpr_keeping_spaces(device_name) == to_lowercase(device_name)

name_to_evalexpr(device_name) == replace_char(to_lowercase(device_name), " ", "_")

\* format!("{}.{}", a, b)
Dot(a, b) == a \o S_dot \o b

(***************************************************************************)
(* Splitting a string on a separator character (str::split).               *)
(***************************************************************************)
RECURSIVE SplitFrom(_, _, _, _)
SplitFrom(s, sep, i, cur) ==
    IF i > Len(s) THEN <<cur>>
    ELSE IF s[i] = sep THEN <<cur>> \o SplitFrom(s, sep, i + 1, <<>>)
    ELSE SplitFrom(s, sep, i + 1, Append(cur, s[i]))

Split(s, sep) == SplitFrom(s, sep, 1, <<>>)

(***************************************************************************)
(* evalexpr::Value                                                         *)
(***************************************************************************)
VBoolean(b) == [t |-> "Boolean", v |-> b]
VFloat(n)   == [t |-> "Float", v |-> n]
VInt(n)     == [t |-> "Int", v |-> n]
VString(s)  == [t |-> "String", v |-> s]
VTuple(m)   == [t |-> "Tuple", v |-> m]
VEmpty      == [t |-> "Empty", v |-> <<>>]

(***************************************************************************)
(* serde_json::Value                                                       *)
(***************************************************************************)
JNull       == [t |-> "Null", v |-> <<>>]
JBool(b)    == [t |-> "Bool", v |-> b]
JNumber(n)  == [t |-> "Number", v |-> <<n, "i64">>]   \* an integer number
JNumberF(n) == [t |-> "Number", v |-> <<n, "f64">>]   \* a float number
JString(s)  == [t |-> "String", v |-> s]
JArray(a)   == [t |-> "Array", v |-> a]
JObject(o)  == [t |-> "Object", v |-> o]

EmptyMap == [k \in {} |-> JNull]


(***************************************************************************)
(* Order of strings (str's Ord: byte-wise lexicographic), used for the     *)
(* iteration order of BTreeMap-backed maps.                                *)
(***************************************************************************)
Alphabet ==
    <<" ", ".", "/", "0", "1", "2", "3", "4", "5", "6", "7", "8", "9",
      "A", "B", "D", "L", "M", "P", "T", "V", "_",
      "a", "b", "c", "d", "e", "f", "g", "h", "i", "j", "k", "l", "m",
      "n", "o", "p", "q", "r", "s", "t", "u", "v", "w", "x", "y", "z", "~">>

Rank(c) == CHOOSE i \in 1..Len(Alphabet) : Alphabet[i] = c

RECURSIVE StrLessFrom(_, _, _)
StrLessFrom(a, b, i) ==
    IF i > Len(a) THEN i <= Len(b)
    ELSE IF i > Len(b) THEN FALSE
    ELSE IF a[i] = b[i] THEN StrLessFrom(a, b, i + 1)
    ELSE Rank(a[i]) < Rank(b[i])

StrLess(a, b) == StrLessFrom(a, b, 1)

RECURSIVE SortedKeys(_)
SortedKeys(S) ==
    IF S = {} THEN <<>>
    ELSE LET m == CHOOSE x \in S : \A y \in S \ {x} : StrLess(x, y)
         IN <<m>> \o SortedKeys(S \ {m})

(***************************************************************************)
(* value_kv_pairs_deep: the leaves of a JSON value as (dotted path, leaf)  *)
(* pairs, in the iteration order of the value.                             *)
(***************************************************************************)
RECURSIVE value_kv_pairs_deep(_, _)
RECURSIVE kv_pairs_object(_, _, _, _)
RECURSIVE kv_pairs_array(_, _, _)

value_kv_pairs_deep(value, prefix) ==
    CASE value.t = "Object" ->
            kv_pairs_object(value.v, SortedKeys(DOMAIN value.v), 1, prefix)
      [] value.t = "Array" -> kv_pairs_array(value.v, 1, prefix)
      [] OTHER -> << <<prefix, value>> >>

kv_pairs_object(object, keys, n, prefix) ==
    IF n > Len(keys) THEN <<>>
    ELSE value_kv_pairs_deep(object[keys[n]], Dot(prefix, keys[n]))
            \o kv_pairs_object(object, keys, n + 1, prefix)

kv_pairs_array(array, n, prefix) ==
    IF n > Len(array) THEN <<>>
    ELSE value_kv_pairs_deep(array[n], Dot(prefix, IndexToString(n - 1)))
            \o kv_pairs_array(array, n + 1, prefix)

(***************************************************************************)
(* Results: Ok(value) / Err.                                               *)
(***************************************************************************)
Ok(x)  == [ok |-> TRUE, val |-> x]
Err    == [ok |-> FALSE, val |-> <<>>]

(***************************************************************************)
(* Leaf conversions between serde_json::Value and evalexpr::Value.         *)
(***************************************************************************)
serde_value_to_evalexpr(value) ==
    CASE value.t = "Bool"   -> Ok(VBoolean(value.v))
      [] value.t = "Number" -> Ok(VFloat(value.v[1]))
      [] value.t = "String" -> Ok(VString(value.v))
      [] value.t = "Null"   -> Ok(VEmpty)
      [] value.t = "Array"  -> Err
      [] value.t = "Object" -> Err

\* f64::INFINITY, the result of a float division by zero: a float above
\* every finite number of the model
INFINITY == 1000000
is_finite(f) == f < INFINITY

\* Number::from_f64 is None for a float that is not finite.  A Float and an
\* Int of the same magnitude give different serde numbers (1.0, 1).
RECURSIVE evalexpr_value_to_serde(_)
evalexpr_value_to_serde(value) ==
    CASE value.t = "Boolean" -> Ok(JBool(value.v))
      [] value.t = "Float"   -> IF is_finite(value.v) THEN Ok(JNumberF(value.v)) ELSE Err
      [] value.t = "String"  -> Ok(JString(value.v))
      [] value.t = "Empty"   -> Ok(JNull)
      [] value.t = "Tuple"   ->
            LET a == [i \in 1..Len(value.v) |-> evalexpr_value_to_serde(value.v[i])] IN
            IF \E i \in DOMAIN a : ~a[i].ok THEN Err
            ELSE Ok(JArray([i \in DOMAIN a |-> a[i].val]))
      [] value.t = "Int"     -> Ok(JNumber(value.v))

(***************************************************************************)
(* HashMapContext: the variables of an evaluation namespace.               *)
(***************************************************************************)
EmptyContext == [p \in {} |-> VEmpty]

\* ValueType::from(&value)
ValueType(value) == value.t

\* HashMapContext::set_value: with type-safety checks on, overwriting a
\* variable with a value of another type is an error.
set_value(context, checks_disabled, key, value) ==
    IF key \in DOMAIN context /\ ~checks_disabled
          /\ ValueType(context[key]) # ValueType(value)
    THEN Err
    ELSE Ok([p \in DOMAIN context \cup {key} |-> IF p = key THEN value ELSE context[p]])

\* for (key, value) in values { context.set_value(key, to_evalexpr(value)?)? }
RECURSIVE set_values(_, _, _)
set_values(context, values, n) ==
    IF n > Len(values) THEN Ok(context)
    ELSE LET value == serde_value_to_evalexpr(values[n][2]) IN
         IF ~value.ok THEN Err
         ELSE LET r == set_value(context, FALSE, values[n][1], value.val) IN
              IF ~r.ok THEN Err ELSE set_values(r.val, values, n + 1)

(***************************************************************************)
(* Inputs of an evaluation.                                                *)
(*   DevicesState: device key -> Device [name, integration_id, value],     *)
(*     iterated in key order;                                              *)
(*   FlattenedScenesConfig: scene id -> (device key -> state value);       *)
(*   FlattenedGroupsConfig: group id -> power of the group.                *)
(***************************************************************************)
Device(name, integration_id, value) ==
    [name |-> name, integration_id |-> integration_id, value |-> value]

\* Device::get_value
get_value(device) == device.value

LightValue(on, bri, scene) ==
    JObject((S_state :> JObject((S_on :> JBool(on)) @@ (S_bri :> JNumber(bri))))
            @@ (S_scene :> scene))

K1 == <<"h","u","e","/","1">>
K2 == <<"h","u","e","/","2">>
K9 == <<"h","u","e","/","9">>
K3 == <<"i","k","e","a","/","3">>

\* one lamp, "Lamp 1" on hue
DevicesA == (K1 :> Device(S_Lamp_1, S_hue, LightValue(FALSE, 1, JNull)))
\* the lamp and a device whose name contains a dot
DevicesB == (K1 :> Device(S_Lamp_1, S_hue, LightValue(TRUE, 1, JString(S_day))))
            @@ (K2 :> Device(S_a_b, S_ikea, JObject((S_state :> JBool(FALSE)))))
\* two devices that normalize to the same name, with different leaves
DevicesC == (K1 :> Device(S_Lamp_1, S_hue, JObject((S_state :> JObject((S_on :> JBool(FALSE)))))))
            @@ (K2 :> Device(S_LAMP_1, S_hue, JObject((S_state :> JObject((S_bri :> JNumber(2)))))))

\* the lamp and a second device with a state, "TV" on ikea
DevicesD == (K1 :> Device(S_Lamp_1, S_hue, LightValue(FALSE, 1, JNull)))
            @@ (K3 :> Device(S_TV, S_ikea, JObject((S_state :> JObject((S_on :> JBool(FALSE)))))))

\* two devices that normalize to the same name and share a leaf path; the
\* second has an array among its values
DevicesE == (K1 :> Device(S_Lamp_1, S_hue, JObject((S_state :> JObject((S_on :> JBool(FALSE)))))))
            @@ (K2 :> Device(S_LAMP_1, S_hue,
                      JObject((S_state :> JObject((S_on :> JBool(TRUE))))
                              @@ (S_tags :> JArray(<<JString(S_x),
                                                     JObject((S_bri :> JNumber(2)))>>)))))
\* two devices that normalize to the same name and share a leaf path with
\* values of different types
DevicesF == (K1 :> Device(S_Lamp_1, S_hue, JObject((S_state :> JObject((S_on :> JBool(FALSE)))))))
            @@ (K2 :> Device(S_LAMP_1, S_hue, JObject((S_state :> JObject((S_on :> JNumber(1)))))))

NoScenes == [k \in {} |-> EmptyMap]
\* scene "evening" overrides the lamp and a device that is not registered
ScenesA == (S_evening :> ((K1 :> JObject((S_on :> JBool(TRUE))))
                          @@ (K9 :> JObject((S_on :> JBool(TRUE))))))

\* scene "Day" overrides the lamp and a device that is not registered
ScenesB == (S_Day :> ((K1 :> JObject((S_state :> JObject((S_on :> JBool(TRUE))))))
                      @@ (K9 :> JObject((S_on :> JBool(TRUE))))))

NoGroups == [g \in {} |-> FALSE]
GroupsA == (S_kitchen :> TRUE)

\* flattened_groups_to_eval_context_values (core/groups.rs)
flattened_groups_to_eval_context_values(flattened_groups, devices) ==
    LET keys == SortedKeys(DOMAIN flattened_groups) IN
    [n \in 1..Len(keys) |->
        <<Dot(Dot(S_groups, keys[n]), S_power), JBool(flattened_groups[keys[n]])>>]

(***************************************************************************)
(* The body of state_to_eval_context (without the cache around it).        *)
(***************************************************************************)
RECURSIVE build_devices(_, _, _, _)
build_devices(context, devices, keys, n) ==
    IF n > Len(keys) THEN Ok(context)
    ELSE LET device == devices[keys[n]]
             root_value == get_value(device)
             prefix == Dot(Dot(S_devices, device.integration_id),
                           name_to_evalexpr(device.name))
             values == value_kv_pairs_deep(root_value, prefix)
             r == set_values(context, values, 1)
         IN IF ~r.ok THEN Err ELSE build_devices(r.val, devices, keys, n + 1)

\* a scene loop that fails on an override of a device that is not registered
RECURSIVE build_scene_devices_strict(_, _, _, _, _, _)
build_scene_devices_strict(context, devices, scene, prefix0, keys, n) ==
    IF n > Len(keys) THEN Ok(context)
    ELSE LET device_key == keys[n] IN
         IF device_key \notin DOMAIN devices THEN Err
         ELSE LET device == devices[device_key]
                  name == name_to_evalexpr(to_lowercase(device.name))
                  prefix == Dot(Dot(prefix0, device.integration_id), name)
                  values == value_kv_pairs_deep(scene[device_key], prefix)
                  r == set_values(context, values, 1)
              IN IF ~r.ok THEN Err
                 ELSE build_scene_devices_strict(r.val, devices, scene, prefix0, keys, n + 1)

RECURSIVE build_scene_devices(_, _, _, _, _, _)
build_scene_devices(context, devices, scene, prefix0, keys, n) ==
    IF n > Len(keys) THEN Ok(context)
    ELSE LET device_key == keys[n] IN
         IF device_key \notin DOMAIN devices
         THEN build_scene_devices(context, devices, scene, prefix0, keys, n + 1)
         ELSE LET device == devices[device_key]
                  name == name_to_evalexpr(to_lowercase(device.name))
                  prefix == Dot(Dot(prefix0, device.integration_id), name)
                  values == value_kv_pairs_deep(scene[device_key], prefix)
                  r == set_values(context, values, 1)
              IN IF ~r.ok THEN Err
                 ELSE build_scene_devices(r.val, devices, scene, prefix0, keys, n + 1)

RECURSIVE build_scenes(_, _, _, _, _)
build_scenes(context, devices, flattened_scenes, ids, n) ==
    IF n > Len(ids) THEN Ok(context)
    ELSE LET scene_id == ids[n]
             scene == flattened_scenes[scene_id]
             prefix == Dot(S_scenes, name_to_evalexpr(scene_id))
             r == build_scene_devices(context, devices, scene, prefix,
                                      SortedKeys(DOMAIN scene), 1)
         IN IF ~r.ok THEN Err
            ELSE build_scenes(r.val, devices, flattened_scenes, ids, n + 1)

build_context(devices, flattened_scenes, flattened_groups) ==
    LET d == build_devices(EmptyContext, devices, SortedKeys(DOMAIN devices), 1) IN
    IF ~d.ok THEN Err
    ELSE LET s == build_scenes(d.val, devices, flattened_scenes,
                               SortedKeys(DOMAIN flattened_scenes), 1) IN
         IF ~s.ok THEN Err
         ELSE set_values(s.val,
                  flattened_groups_to_eval_context_values(flattened_groups, devices), 1)

(***************************************************************************)
(* #[cached(size = 1, result = true)]: a single slot keyed by the          *)
(* arguments; only Ok results are stored.                                  *)
(***************************************************************************)
EmptyCache == [full |-> FALSE, key |-> <<>>, val |-> EmptyContext]

CacheKey(devs, fscenes, fgroups) == <<devs, fscenes, fgroups>>

\* a lookup that serves whatever the slot holds, whatever its key
cache_get_any_key(c, key) ==
    IF c.full THEN Ok(c.val) ELSE Err

\* SizedCache::cache_get: Some(value) on a hit
cache_get(c, key) ==
    IF c.full /\ c.key = key THEN Ok(c.val) ELSE Err

\* SizedCache::cache_set with size 1: the slot is replaced
cache_set(c, key, val) == [full |-> TRUE, key |-> key, val |-> val]

(***************************************************************************)
(* Value accessors of evalexpr.                                            *)
(***************************************************************************)
as_string(value) == IF value.t = "String" THEN Ok(value.v) ELSE Err
as_tuple(value)  == IF value.t = "Tuple" THEN Ok(value.v) ELSE Err

tuple_value_to_vec_string(value) ==
    LET tuple == as_tuple(value) IN
    IF ~tuple.ok THEN Err
    ELSE IF \E i \in 1..Len(tuple.val) : ~as_string(tuple.val[i]).ok THEN Err
    ELSE Ok([i \in 1..Len(tuple.val) |-> as_string(tuple.val[i]).val])

\* a join that puts a space between the members
RECURSIVE join_with_space(_)
join_with_space(vec) ==
    IF vec = <<>> THEN <<>>
    ELSE IF Len(vec) = 1 THEN Head(vec)
    ELSE Head(vec) \o <<" ">> \o join_with_space(Tail(vec))

\* Vec<String>::join("")
RECURSIVE join(_)
join(vec) == IF vec = <<>> THEN <<>> ELSE Head(vec) \o join(Tail(vec))

(***************************************************************************)
(* EvalExprAction, the commands queued by the built-ins.                   *)
(***************************************************************************)
EvalActivateScene(scene_id) == [k |-> "ActivateScene", a |-> scene_id, b |-> <<>>]
EvalCustom(integration_id, payload) == [k |-> "Custom", a |-> integration_id, b |-> payload]
EvalForceTriggerRoutine(routine_id) == [k |-> "ForceTriggerRoutine", a |-> routine_id, b |-> <<>>]

\* a queue that grows at the front
push_front(queue, command) == <<command>> \o queue

\* actions.write().unwrap().push(command)
push(queue, command) == Append(queue, command)

\* The three built-in closures: Ok(queue after the call) or Err.  A tuple
\* argument is the argument list of a call with two or more arguments.
activate_scene(queue, argument) ==
    LET scene_id == as_string(argument) IN
    IF ~scene_id.ok THEN Err
    ELSE Ok(push(queue, EvalActivateScene(scene_id.val)))

custom_action(queue, argument) ==
    LET arguments == as_tuple(argument) IN
    IF ~arguments.ok THEN Err
    ELSE LET integration_id == as_string(arguments.val[1]) IN
         IF ~integration_id.ok THEN Err
         ELSE LET parts == tuple_value_to_vec_string(arguments.val[2]) IN
              IF ~parts.ok THEN Err
              ELSE Ok(push(queue, EvalCustom(integration_id.val, join(parts.val))))

trigger_routine(queue, argument) ==
    LET arguments == as_tuple(argument) IN
    IF ~arguments.ok THEN Err
    ELSE LET routine_id == as_string(arguments.val[1]) IN
         IF ~routine_id.ok THEN Err
         ELSE Ok(push(queue, EvalForceTriggerRoutine(routine_id.val)))

(***************************************************************************)
(* Action, the messages published on the event channel.                    *)
(***************************************************************************)
None == [some |-> FALSE, val |-> <<>>]
Some(x) == [some |-> TRUE, val |-> x]
NoDevice == [name |-> <<>>, integration_id |-> <<>>, value |-> JNull]

ActionActivateScene(scene_id, device_keys, group_keys) ==
    [action |-> "ActivateScene", id |-> scene_id, payload |-> <<>>,
     device_keys |-> device_keys, group_keys |-> group_keys, device |-> NoDevice]
ActionCustom(integration_id, payload) ==
    [action |-> "Custom", id |-> integration_id, payload |-> payload,
     device_keys |-> None, group_keys |-> None, device |-> NoDevice]
ActionForceTriggerRoutine(routine_id) ==
    [action |-> "ForceTriggerRoutine", id |-> routine_id, payload |-> <<>>,
     device_keys |-> None, group_keys |-> None, device |-> NoDevice]
ActionSetDeviceState(device) ==
    [action |-> "SetDeviceState", id |-> <<>>, payload |-> <<>>,
     device_keys |-> None, group_keys |-> None, device |-> device]

\* a lookup that never attaches group keys
get_group_keys_none(ctx) == Ok(None)

\* context.get_value("group_keys").map_or(Ok(None), ...)?
get_group_keys(ctx) ==
    IF S_group_keys \notin DOMAIN ctx THEN Ok(None)
    ELSE LET group_ids == tuple_value_to_vec_string(ctx[S_group_keys]) IN
         IF ~group_ids.ok THEN Err ELSE Ok(Some(group_ids.val))

\* The match of the drain loop: a queued command to its Action.
translate(command, ctx) ==
    CASE command.k = "ActivateScene" ->
            LET group_keys == get_group_keys(ctx) IN
            IF ~group_keys.ok THEN Err
            ELSE Ok(ActionActivateScene(command.a, None, group_keys.val))
      [] command.k = "Custom" -> Ok(ActionCustom(command.a, command.b))
      [] command.k = "ForceTriggerRoutine" -> Ok(ActionForceTriggerRoutine(command.a))

(***************************************************************************)
(* vars_diff: the variables of the final namespace whose value is not the  *)
(* one the original namespace holds (Value's derived PartialEq: an Int     *)
(* and a Float are never equal).                                           *)
(***************************************************************************)
differs(ctx, original, name) ==
    name \notin DOMAIN original \/ ctx[name] # original[name]

vars_diff_of(ctx, original) ==
    LET names == {name \in DOMAIN ctx : differs(ctx, original, name)} IN
    [name \in names |-> ctx[name]]

(***************************************************************************)
(* jsonptr: parsing "/a/b" into tokens and assigning a value at a pointer. *)
(***************************************************************************)
\* A "~" must be followed by "0" or "1".
ValidEscapes(s) ==
    \A i \in 1..Len(s) : s[i] = "~" => (i < Len(s) /\ s[i + 1] \in {"0", "1"})

RECURSIVE decode_token(_, _)
decode_token(tok, i) ==
    IF i > Len(tok) THEN <<>>
    ELSE IF tok[i] = "~"
         THEN <<IF tok[i + 1] = "0" THEN "~" ELSE "/">> \o decode_token(tok, i + 2)
         ELSE <<tok[i]>> \o decode_token(tok, i + 1)

\* jsonptr::Pointer::try_from(format!("/{}", path.replace('.', "/")))
pointer_of(path) ==
    LET text == replace_char(path, ".", "/") IN
    IF ~ValidEscapes(text) THEN Err
    ELSE LET raw == Split(text, "/") IN
         Ok([i \in 1..Len(raw) |-> decode_token(raw[i], 1)])

DigitValue(c) == (CHOOSE i \in 1..10 : Digits[i] = c) - 1
IsDigit(c) == \E i \in 1..10 : Digits[i] = c

\* Token::to_index: a decimal array index without leading zeros
IsIndex(tok) ==
    /\ Len(tok) >= 1
    /\ \A i \in 1..Len(tok) : IsDigit(tok[i])
    /\ (Len(tok) > 1 => tok[1] # "0")

RECURSIVE IndexValue(_, _)
IndexValue(tok, n) ==
    IF n = 0 THEN 0 ELSE 10 * IndexValue(tok, n - 1) + DigitValue(tok[n])

\* Assign::assign: missing members are created, a scalar on the way is
\* replaced (by an array for the token "0", by an object otherwise), an
\* array accepts an index up to its length.
RECURSIVE json_assign(_, _, _, _)
json_assign(dest, tokens, n, src) ==
    IF n > Len(tokens) THEN Ok(src)
    ELSE LET tok == tokens[n] IN
         CASE dest.t = "Object" ->
                LET child == IF tok \in DOMAIN dest.v THEN dest.v[tok] ELSE JNull
                    r == json_assign(child, tokens, n + 1, src)
                IN IF ~r.ok THEN Err
                   ELSE Ok(JObject([k \in DOMAIN dest.v \cup {tok} |->
                                       IF k = tok THEN r.val ELSE dest.v[k]]))
           [] dest.t = "Array" ->
                IF ~IsIndex(tok) \/ IndexValue(tok, Len(tok)) > Len(dest.v) THEN Err
                ELSE LET idx == IndexValue(tok, Len(tok)) + 1
                         child == IF idx <= Len(dest.v) THEN dest.v[idx] ELSE JNull
                         r == json_assign(child, tokens, n + 1, src)
                     IN IF ~r.ok THEN Err
                        ELSE Ok(JArray([i \in 1..(IF idx > Len(dest.v) THEN idx ELSE Len(dest.v))
                                           |-> IF i = idx THEN r.val ELSE dest.v[i]]))
           [] OTHER ->
                LET r == json_assign(JNull, tokens, n + 1, src) IN
                IF ~r.ok THEN Err
                ELSE IF tok = <<"0">> THEN Ok(JArray(<<r.val>>))
                ELSE Ok(JObject((tok :> r.val)))

\* an encoding loop that leaves out what it cannot encode
RECURSIVE encode_diff_skipping(_, _, _, _)
encode_diff_skipping(map, diff, order, n) ==
    IF n > Len(order) THEN Ok(map)
    ELSE LET path == order[n]
             json_pointer == pointer_of(path)
             new_value == evalexpr_value_to_serde(diff[path])
         IN IF ~json_pointer.ok \/ ~new_value.ok
            THEN encode_diff_skipping(map, diff, order, n + 1)
            ELSE LET r == json_assign(map, json_pointer.val, 1, new_value.val) IN
                 IF ~r.ok THEN encode_diff_skipping(map, diff, order, n + 1)
                 ELSE encode_diff_skipping(r.val, diff, order, n + 1)

\* The loop that encodes vars_diff into vars_diff_map, visiting the paths
\* in the order `order` (a HashMap's iteration order is unspecified).
RECURSIVE encode_diff(_, _, _, _)
encode_diff(map, diff, order, n) ==
    IF n > Len(order) THEN Ok(map)
    ELSE LET path == order[n]
             json_pointer == pointer_of(path)
         IN IF ~json_pointer.ok THEN Err
            ELSE LET new_value == evalexpr_value_to_serde(diff[path]) IN
                 IF ~new_value.ok THEN Err
                 ELSE LET r == json_assign(map, json_pointer.val, 1, new_value.val) IN
                      IF ~r.ok THEN Err ELSE encode_diff(r.val, diff, order, n + 1)

\* the orders in which a set of paths can be visited
Orders(S) == {o \in [1..Cardinality(S) -> S] : \A p \in S : \E i \in DOMAIN o : o[i] = p}

(***************************************************************************)
(* serde_json_path: JsonPath::query_path_and_value for a path of member    *)
(* names and wildcards; matches come in document order.                    *)
(***************************************************************************)
Wildcard == <<"*">>
scenes_path == <<S_devices, Wildcard, Wildcard, S_scene>>    \* $.devices.*.*.scene
state_path  == <<S_devices, Wildcard, Wildcard, S_state>>    \* $.devices.*.*.state

RECURSIVE query_path_and_value(_, _, _, _)
RECURSIVE query_members(_, _, _, _, _, _)
RECURSIVE query_elements(_, _, _, _, _)

query_path_and_value(node, pattern, n, path) ==
    IF n > Len(pattern) THEN << <<path, node>> >>
    ELSE IF pattern[n] = Wildcard
    THEN CASE node.t = "Object" ->
                query_members(node.v, SortedKeys(DOMAIN node.v), 1, pattern, n, path)
           [] node.t = "Array" -> query_elements(node.v, 1, pattern, n, path)
           [] OTHER -> <<>>
    ELSE IF node.t = "Object" /\ pattern[n] \in DOMAIN node.v
         THEN query_path_and_value(node.v[pattern[n]], pattern, n + 1,
                                   Append(path, pattern[n]))
         ELSE <<>>

query_members(object, keys, i, pattern, n, path) ==
    IF i > Len(keys) THEN <<>>
    ELSE query_path_and_value(object[keys[i]], pattern, n + 1, Append(path, keys[i]))
            \o query_members(object, keys, i + 1, pattern, n, path)

query_elements(array, i, pattern, n, path) ==
    IF i > Len(array) THEN <<>>
    ELSE query_path_and_value(array[i], pattern, n + 1, Append(path, IndexToString(i - 1)))
            \o query_elements(array, i + 1, pattern, n, path)

(***************************************************************************)
(* find_device_by_path: the first device, in key order, whose integration  *)
(* id and normalized name are path[1] and path[2] (0-based).               *)
(***************************************************************************)
RECURSIVE find_first(_, _, _, _, _)
find_first(devs, keys, n, integration_id, name) ==
    IF n > Len(keys) THEN None
    ELSE IF devs[keys[n]].integration_id = integration_id
            /\ name_to_evalexpr(devs[keys[n]].name) = name
         THEN Some(keys[n])
         ELSE find_first(devs, keys, n + 1, integration_id, name)

\* a lookup that falls back to the first device when none matches
find_device_by_path_or_first(devs, path) ==
    LET found == find_first(devs, SortedKeys(DOMAIN devs), 1, path[2], path[3]) IN
    IF found.some THEN found ELSE Some(SortedKeys(DOMAIN devs)[1])

find_device_by_path(devs, path) ==
    find_first(devs, SortedKeys(DOMAIN devs), 1, path[2], path[3])

\* Device::set_value (types/device.rs): validate a state value and apply it
\* as the device's whole state.
device_set_value(device, state) ==
    IF state.t # "Object" THEN Err
    ELSE Ok([device EXCEPT !.value =
                JObject([k \in DOMAIN device.value.v \cup {S_state} |->
                            IF k = S_state THEN state ELSE device.value.v[k]])])

(***************************************************************************)
(* The expressions the model evaluates: a chain of at most MaxStmts        *)
(* sub-expressions (assignments and built-in calls) followed by a final    *)
(* sub-expression that gives the result.                                   *)
(***************************************************************************)
P_lamp        == Dot(Dot(S_devices, S_hue), S_lamp_1)
P_lamp_scene  == Dot(P_lamp, S_scene)
P_lamp_on     == Dot(Dot(P_lamp, S_state), S_on)
P_lamp_bri    == Dot(Dot(P_lamp, S_state), S_bri)
P_ghost_scene == Dot(Dot(Dot(S_devices, S_hue), S_ghost), S_scene)
P_ab_state    == Dot(Dot(Dot(S_devices, S_ikea), S_a_b), S_state)
P_ab_scene    == Dot(Dot(Dot(S_devices, S_ikea), S_a_b), S_scene)
P_lamp_state  == Dot(P_lamp, S_state)
P_ghost_on    == Dot(Dot(Dot(Dot(S_devices, S_hue), S_ghost), S_state), S_on)
P_tilde       == <<"a", "~", "b">>     \* a variable `a~b`: not a valid pointer token
P_tv_on       == Dot(Dot(Dot(Dot(S_devices, S_ikea), S_tv), S_state), S_on)

Assignments ==
    { <<P_lamp_scene, VString(S_evening)>>, <<P_lamp_scene, VInt(1)>>,
      <<P_lamp_on, VBoolean(TRUE)>>, <<P_lamp_on, VBoolean(FALSE)>>,
      <<P_lamp_bri, VInt(1)>>, <<P_lamp_bri, VFloat(1)>>,
      <<P_ghost_scene, VString(S_evening)>>,
      <<S_group_keys, VTuple(<<VString(S_kitchen), VString(S_hall)>>)>>,
      <<S_group_keys, VInt(1)>>,
      <<P_ab_state, VBoolean(TRUE)>>, <<P_ab_scene, VString(S_evening)>> }

\* statements about the diff: paths of devices that are not registered, a
\* state that is not an object, states of two devices, a division by zero
DiffAssignments ==
    { <<P_lamp_scene, VString(S_evening)>>,
      <<P_ghost_scene, VString(S_evening)>>, <<P_ghost_on, VBoolean(TRUE)>>,
      <<P_lamp_state, VInt(1)>>, <<P_lamp_on, VBoolean(TRUE)>>,
      <<P_tv_on, VBoolean(TRUE)>>,
      <<P_lamp_bri, VFloat(INFINITY)>>, <<P_tilde, VInt(1)>> }

ActivateSceneArgs == { VString(S_relax), VInt(1) }
CustomActionArgs ==
    { VTuple(<<VString(S_ikea), VTuple(<<VString(S_x), VString(S_on)>>)>>),
      VTuple(<<VString(S_ikea), VTuple(<<VString(S_x), VInt(1)>>)>>),
      VString(S_ikea) }
TriggerRoutineArgs == { VString(S_r1), VTuple(<<VString(S_r1), VString(S_x)>>) }

Results == { VBoolean(FALSE), VBoolean(TRUE), VEmpty }

\* the (devices, flattened scenes, flattened groups) snapshots of a call
Inputs == { <<DevicesA, ScenesA, NoGroups>>,
            <<DevicesB, NoScenes, GroupsA>>,
            <<DevicesC, NoScenes, NoGroups>> }

\* the snapshots state_to_eval_context is called with
BuildInputs ==
    Inputs \cup { <<DevicesA, ScenesB, NoGroups>>,
                  <<DevicesE, NoScenes, NoGroups>>,
                  <<DevicesF, NoScenes, NoGroups>> }

\* the statements of the evaluations that follow one another
SeqAssignments ==
    { <<P_lamp_scene, VString(S_evening)>>, <<P_lamp_on, VBoolean(TRUE)>>,
      <<S_group_keys, VTuple(<<VString(S_kitchen), VString(S_hall)>>)>> }

DiffInputs == { <<DevicesD, NoScenes, NoGroups>> }

Callers == {1, 2}

(***************************************************************************)
(* State.                                                                  *)
(***************************************************************************)
VARIABLES
    devices, flattened_scenes, flattened_groups,  \* inputs of eval_action_expr
    rerun,              \* history: the evaluation before this one had the same inputs,
                        \*   assigned variables, created group_keys and queued a command
    cache,              \* the slot of state_to_eval_context's cache
    pc,                 \* position in eval_action_expr
    context,            \* the namespace the expression evaluates in
    original_context,   \* its clone taken before evaluation
    actions,            \* the queue of EvalExprAction
    actions_lock,       \* "unlocked", "read" or "write": the RwLock of actions
    event_tx,           \* the actions sent on the channel by this evaluation
    outcome,            \* "running", "Ok" or "Err": what eval_action_expr returned
    result,             \* the value the expression evaluated to
    nstmts,             \* sub-expressions evaluated so far
    called,             \* history: the built-in calls that returned Ok
    failed,             \* history: the built-in call that failed, if any
    failure,            \* history: "none", or the step that made the call fail
    assigned,           \* history: path -> number of built-in calls made before its last assignment
    idx,                \* loop position in the drain / scene / state loops
    vars_diff, vars_diff_map, scenes_diff, state_diff,
    send_locks,         \* history: the state of actions_lock at each send
    cpc,                \* callers of state_to_eval_context: position of each
    cargs,              \*   its (devices, scenes, groups) arguments
    cval,               \*   the namespace it built on a miss
    cret,               \*   what its last call returned
    ccalls,             \*   how many calls it completed
    chit                \*   history: its last call was served from the cache

inputs_vars == <<devices, flattened_scenes, flattened_groups, rerun>>
diff_vars == <<vars_diff, vars_diff_map, scenes_diff, state_diff>>
hist_vars == <<called, failed, assigned>>
NoAssignments == [p \in {} |-> 0]
caller_vars == <<cpc, cargs, cval, cret, ccalls, chit>>
eval_vars == <<inputs_vars, pc, context, original_context, actions, actions_lock,
               event_tx, outcome, result, nstmts, hist_vars, failure, idx, diff_vars,
               send_locks>>
vars == <<eval_vars, cache, caller_vars>>

\* a built-in call: its name and its argument
NoCall == [fn |-> "", arg |-> VEmpty]
Call(fn, arg) == [fn |-> fn, arg |-> arg]

InitCallers ==
    /\ cpc = [p \in Callers |-> "idle"]
    /\ cargs = [p \in Callers |-> <<>>]
    /\ cval = [p \in Callers |-> Err]
    /\ cret = [p \in Callers |-> Err]
    /\ ccalls = [p \in Callers |-> 0]
    /\ chit = [p \in Callers |-> FALSE]

InitEval ==
    /\ rerun = FALSE
    /\ pc = "build"
    /\ context = EmptyContext
    /\ original_context = EmptyContext
    /\ actions = <<>>
    /\ actions_lock = "unlocked"
    /\ event_tx = <<>>
    /\ outcome = "running"
    /\ result = VEmpty
    /\ nstmts = 0
    /\ called = <<>>
    /\ failed = NoCall
    /\ failure = "none"
    /\ assigned = NoAssignments
    /\ idx = 1
    /\ vars_diff = EmptyContext
    /\ vars_diff_map = JNull
    /\ scenes_diff = <<>>
    /\ state_diff = <<>>
    /\ send_locks = <<>>

Init ==
    /\ \E in \in Inputs :
          /\ devices = in[1]
          /\ flattened_scenes = in[2]
          /\ flattened_groups = in[3]
    /\ cache = EmptyCache
    /\ InitEval
    /\ InitCallers

(***************************************************************************)
(* eval_action_expr, lines 176-180: the namespace comes from the cached    *)
(* state_to_eval_context; type-safety checks are switched off and the      *)
(* namespace is cloned as original_context.                                *)
(***************************************************************************)
state_to_eval_context(c, devs, fscenes, fgroups) ==
    LET key == CacheKey(devs, fscenes, fgroups)
        hit == cache_get(c, key)
    IN IF hit.ok THEN [ret |-> hit, cache |-> c]
       ELSE LET built == build_context(devs, fscenes, fgroups) IN
            [ret |-> built,
             cache |-> IF built.ok THEN cache_set(c, key, built.val) ELSE c]

\* event_tx.send(Message::Action(action))
send(action) ==
    /\ event_tx' = Append(event_tx, action)
    /\ send_locks' = Append(send_locks, actions_lock)

no_send == UNCHANGED <<event_tx, send_locks>>

\* return Err(..) / return Ok(()): the guards of the function are dropped
return(value) ==
    /\ outcome' = value
    /\ pc' = "done"
    /\ actions_lock' = "unlocked"

\* return Err(..) out of the step `step`
return_err(step) == return("Err") /\ failure' = step

BuildContext ==
    /\ pc = "build"
    /\ LET r == state_to_eval_context(cache, devices, flattened_scenes, flattened_groups) IN
       /\ cache' = r.cache
       /\ IF r.ret.ok
          THEN /\ context' = r.ret.val
               /\ original_context' = r.ret.val
               /\ pc' = "eval"
               /\ UNCHANGED <<outcome, actions_lock, failure>>
          ELSE /\ return_err("build")
               /\ UNCHANGED <<context, original_context>>
    /\ no_send
    /\ UNCHANGED <<inputs_vars, actions, result, nstmts, hist_vars, idx, diff_vars,
                   caller_vars>>

(***************************************************************************)
(* expr.eval_with_context_mut(&mut context)?, one sub-expression a step.   *)
(***************************************************************************)
\* what every evaluation step of a sub-expression leaves alone
eval_frame ==
    /\ no_send
    /\ UNCHANGED <<inputs_vars, cache, original_context, result, idx, diff_vars,
                   caller_vars>>

\* an assignment that writes through to the namespace the cache holds
AssignThroughCache(path, value) ==
    /\ pc = "eval" /\ nstmts < MaxStmts
    /\ context' = set_value(context, TRUE, path, value).val
    /\ cache' = IF cache.full THEN [cache EXCEPT !.val = set_value(@, TRUE, path, value).val]
                ELSE cache
    /\ assigned' = [p \in DOMAIN assigned \cup {path} |->
                        IF p = path THEN Len(called) ELSE assigned[p]]
    /\ nstmts' = nstmts + 1
    /\ no_send
    /\ UNCHANGED <<inputs_vars, original_context, result, idx, diff_vars, caller_vars>>
    /\ UNCHANGED <<pc, actions, actions_lock, outcome, called, failed, failure>>

\* `path = value`: type-safety checks are disabled, the variable is set
Assign(path, value) ==
    /\ pc = "eval" /\ nstmts < MaxStmts
    /\ context' = set_value(context, TRUE, path, value).val
    /\ assigned' = [p \in DOMAIN assigned \cup {path} |->
                        IF p = path THEN Len(called) ELSE assigned[p]]
    /\ nstmts' = nstmts + 1
    /\ eval_frame
    /\ UNCHANGED <<pc, actions, actions_lock, outcome, called, failed, failure>>

\* a built-in whose error is dropped instead of propagated
BuiltInIgnoringErrors(fn, arg, r) ==
    /\ pc = "eval" /\ nstmts < MaxStmts
    /\ nstmts' = nstmts + 1
    /\ IF r.ok
       THEN /\ actions' = r.val
            /\ called' = Append(called, Call(fn, arg))
            /\ UNCHANGED <<failed, failure>>
       ELSE /\ failure' = "eval"
            /\ failed' = Call(fn, arg)
            /\ UNCHANGED <<actions, called>>
    /\ eval_frame
    /\ UNCHANGED <<pc, outcome, actions_lock, context, assigned>>

\* a call of a built-in: the command is queued, or the evaluation fails
BuiltIn(fn, arg, r) ==
    /\ pc = "eval" /\ nstmts < MaxStmts
    /\ nstmts' = nstmts + 1
    /\ IF r.ok
       THEN /\ actions' = r.val
            /\ called' = Append(called, Call(fn, arg))
            /\ UNCHANGED <<pc, outcome, actions_lock, failed, failure>>
       ELSE /\ return_err("eval")
            /\ failed' = Call(fn, arg)
            /\ UNCHANGED <<actions, called>>
    /\ eval_frame
    /\ UNCHANGED <<context, assigned>>

CallActivateScene(arg) == BuiltIn("activate_scene", arg, activate_scene(actions, arg))
CallCustomAction(arg) == BuiltIn("custom_action", arg, custom_action(actions, arg))
CallTriggerRoutine(arg) == BuiltIn("trigger_routine", arg, trigger_routine(actions, arg))

\* any other runtime failure of a sub-expression (e.g. an unknown variable)
EvalFail ==
    /\ pc = "eval" /\ nstmts < MaxStmts
    /\ nstmts' = nstmts + 1
    /\ return_err("eval")
    /\ eval_frame
    /\ UNCHANGED <<context, assigned, actions, called, failed>>

\* an evaluation that dispatches whatever the result is
FinishAlwaysDispatches(value) ==
    /\ pc = "eval"
    /\ result' = value
    /\ pc' = "drain"
    /\ actions_lock' = "read"
    /\ no_send
    /\ UNCHANGED <<inputs_vars, cache, context, original_context, actions, nstmts,
                   hist_vars, failure, outcome, idx, diff_vars, caller_vars>>

\* lines 238-245: the final sub-expression gives the result; Boolean(false)
\* returns, anything else enters the drain loop over actions.read()
Finish(value) ==
    /\ pc = "eval"
    /\ result' = value
    /\ IF value = VBoolean(FALSE)
       THEN return("Ok")
       ELSE /\ pc' = "drain"
            /\ actions_lock' = "read"
            /\ UNCHANGED outcome
    /\ no_send
    /\ UNCHANGED <<inputs_vars, cache, context, original_context, actions, nstmts,
                   hist_vars, failure, idx, diff_vars, caller_vars>>

(***************************************************************************)
(* Lines 245-273: for action in actions.read().unwrap().iter() { .. }      *)
(* The read guard of the loop head lives until the loop ends.              *)
(***************************************************************************)
dispatch_frame ==
    UNCHANGED <<inputs_vars, cache, context, original_context, actions, result,
                nstmts, hist_vars, caller_vars>>

Drain ==
    /\ pc = "drain" /\ idx <= Len(actions)
    /\ LET action == translate(actions[idx], context) IN
       IF action.ok
       THEN /\ send(action.val)
            /\ idx' = idx + 1
            /\ UNCHANGED <<pc, outcome, actions_lock, failure>>
       ELSE /\ return_err("group_keys")
            /\ no_send
            /\ UNCHANGED idx
    /\ dispatch_frame
    /\ UNCHANGED diff_vars

(***************************************************************************)
(* Lines 275-312: the loop ends and its guard is dropped; vars_diff is     *)
(* collected, encoded into vars_diff_map and queried.                      *)
(***************************************************************************)
Diff ==
    /\ pc = "drain" /\ idx > Len(actions)
    /\ LET diff == vars_diff_of(context, original_context) IN
       /\ vars_diff' = diff
       /\ \E order \in Orders(DOMAIN diff) :
             LET map == encode_diff(JNull, diff, order, 1) IN
             IF map.ok
             THEN /\ vars_diff_map' = map.val
                  /\ scenes_diff' = query_path_and_value(map.val, scenes_path, 1, <<>>)
                  /\ state_diff' = query_path_and_value(map.val, state_path, 1, <<>>)
                  /\ pc' = "scenes"
                  /\ actions_lock' = "unlocked"
                  /\ UNCHANGED <<outcome, failure>>
             ELSE /\ return_err("encode")
                  /\ UNCHANGED <<vars_diff_map, scenes_diff, state_diff>>
    /\ idx' = 1
    /\ no_send
    /\ dispatch_frame

(***************************************************************************)
(* Lines 314-328: for (path, scene_id) in scenes_diff { .. }               *)
(***************************************************************************)
SceneLoop ==
    /\ pc = "scenes" /\ idx <= Len(scenes_diff)
    /\ LET path == scenes_diff[idx][1]
           scene_id == scenes_diff[idx][2]
           device == find_device_by_path(devices, path)
       IN IF device.some /\ scene_id.t = "String"
          THEN send(ActionActivateScene(scene_id.v, Some(<<device.val>>), None))
          ELSE no_send
    /\ idx' = idx + 1
    /\ dispatch_frame
    /\ UNCHANGED <<pc, outcome, actions_lock, failure, diff_vars>>

SceneLoopEnd ==
    /\ pc = "scenes" /\ idx > Len(scenes_diff)
    /\ pc' = "states"
    /\ idx' = 1
    /\ no_send
    /\ dispatch_frame
    /\ UNCHANGED <<outcome, actions_lock, failure, diff_vars>>

(***************************************************************************)
(* Lines 330-341: for (path, state) in state_diff { .. }; Ok(())           *)
(***************************************************************************)
\* a state loop that ends at the first state a device rejects
StateLoopStopsOnFailure ==
    /\ pc = "states" /\ idx <= Len(state_diff)
    /\ LET path == state_diff[idx][1]
           state == state_diff[idx][2]
           found == find_device_by_path(devices, path)
       IN IF ~found.some
          THEN /\ no_send /\ idx' = idx + 1
               /\ UNCHANGED <<pc, outcome, actions_lock>>
          ELSE IF device_set_value(devices[found.val], state).ok
          THEN /\ send(ActionSetDeviceState(device_set_value(devices[found.val], state).val))
               /\ idx' = idx + 1
               /\ UNCHANGED <<pc, outcome, actions_lock>>
          ELSE /\ no_send /\ return("Ok") /\ UNCHANGED idx
    /\ dispatch_frame
    /\ UNCHANGED <<failure, diff_vars>>

StateLoop ==
    /\ pc = "states" /\ idx <= Len(state_diff)
    /\ LET path == state_diff[idx][1]
           state == state_diff[idx][2]
           found == find_device_by_path(devices, path)
       IN IF found.some /\ device_set_value(devices[found.val], state).ok
          THEN send(ActionSetDeviceState(device_set_value(devices[found.val], state).val))
          ELSE no_send
    /\ idx' = idx + 1
    /\ dispatch_frame
    /\ UNCHANGED <<pc, outcome, actions_lock, failure, diff_vars>>

StateLoopEnd ==
    /\ pc = "states" /\ idx > Len(state_diff)
    /\ return("Ok")
    /\ no_send
    /\ dispatch_frame
    /\ UNCHANGED <<idx, failure, diff_vars>>

Next ==
    \/ BuildContext
    \/ \E a \in Assignments : Assign(a[1], a[2])
    \/ \E arg \in ActivateSceneArgs : CallActivateScene(arg)
    \/ \E arg \in CustomActionArgs : CallCustomAction(arg)
    \/ \E arg \in TriggerRoutineArgs : CallTriggerRoutine(arg)
    \/ EvalFail
    \/ \E value \in Results : Finish(value)
    \/ Drain
    \/ Diff
    \/ SceneLoop
    \/ SceneLoopEnd
    \/ StateLoop
    \/ StateLoopEnd

Spec == Init /\ [][Next]_vars

(***************************************************************************)
(* Evaluations of expressions that assign device paths: the same           *)
(* eval_action_expr, with the statements of DiffAssignments.               *)
(***************************************************************************)
InitDiff ==
    /\ \E in \in DiffInputs :
          /\ devices = in[1]
          /\ flattened_scenes = in[2]
          /\ flattened_groups = in[3]
    /\ cache = EmptyCache
    /\ InitEval
    /\ InitCallers

NextDiff ==
    \/ BuildContext
    \/ \E a \in DiffAssignments : Assign(a[1], a[2])
    \/ CallActivateScene(VString(S_relax))
    \/ \E value \in Results : Finish(value)
    \/ Drain
    \/ Diff
    \/ SceneLoop
    \/ SceneLoopEnd
    \/ StateLoop
    \/ StateLoopEnd

SpecDiff == InitDiff /\ [][NextDiff]_vars

(***************************************************************************)
(* Evaluations that follow one another.  eval_action_expr has returned:    *)
(* its context, original_context and actions are dropped; the next call    *)
(* gets its own inputs and finds the cache as the calls before left it.    *)
(***************************************************************************)
NewEvaluation ==
    /\ pc = "done"
    /\ \E in \in Inputs :
          /\ devices' = in[1]
          /\ flattened_scenes' = in[2]
          /\ flattened_groups' = in[3]
          /\ rerun' = (/\ in = <<devices, flattened_scenes, flattened_groups>>
                       /\ S_group_keys \in DOMAIN context
                       /\ P_lamp_scene \in DOMAIN assigned
                       /\ actions # <<>>)
    /\ pc' = "build"
    /\ context' = EmptyContext
    /\ original_context' = EmptyContext
    /\ actions' = <<>>
    /\ actions_lock' = "unlocked"
    /\ event_tx' = <<>>
    /\ outcome' = "running"
    /\ result' = VEmpty
    /\ nstmts' = 0
    /\ called' = <<>>
    /\ failed' = NoCall
    /\ failure' = "none"
    /\ assigned' = NoAssignments
    /\ idx' = 1
    /\ vars_diff' = EmptyContext
    /\ vars_diff_map' = JNull
    /\ scenes_diff' = <<>>
    /\ state_diff' = <<>>
    /\ send_locks' = <<>>
    /\ UNCHANGED <<cache, caller_vars>>

NextSeq ==
    \/ BuildContext
    \/ \E a \in SeqAssignments : Assign(a[1], a[2])
    \/ CallActivateScene(VString(S_relax))
    \/ \E value \in Results : Finish(value)
    \/ Drain
    \/ Diff
    \/ SceneLoop
    \/ SceneLoopEnd
    \/ StateLoop
    \/ StateLoopEnd
    \/ NewEvaluation

SpecSeq == Init /\ [][NextSeq]_vars

(***************************************************************************)
(* Overlapping calls of state_to_eval_context.  The code the cached macro  *)
(* generates around the body: lock the cache and look the key up; on a     *)
(* miss run the body without the lock; lock the cache again and store an   *)
(* Ok result under the key made of the call's own arguments.               *)
(***************************************************************************)
CallerStart(p, in) ==
    /\ cpc[p] = "idle" /\ ccalls[p] < MaxCalls
    /\ cargs' = [cargs EXCEPT ![p] = in]
    /\ cpc' = [cpc EXCEPT ![p] = "get"]
    /\ UNCHANGED <<eval_vars, cache, cval, cret, ccalls, chit>>

CallerGet(p) ==
    /\ cpc[p] = "get"
    /\ LET hit == cache_get(cache, CacheKey(cargs[p][1], cargs[p][2], cargs[p][3])) IN
       IF hit.ok
       THEN /\ cret' = [cret EXCEPT ![p] = hit]
            /\ ccalls' = [ccalls EXCEPT ![p] = @ + 1]
            /\ chit' = [chit EXCEPT ![p] = TRUE]
            /\ cpc' = [cpc EXCEPT ![p] = "idle"]
       ELSE /\ cpc' = [cpc EXCEPT ![p] = "body"]
            /\ UNCHANGED <<cret, ccalls, chit>>
    /\ UNCHANGED <<eval_vars, cache, cargs, cval>>

CallerBody(p) ==
    /\ cpc[p] = "body"
    /\ cval' = [cval EXCEPT ![p] = build_context(cargs[p][1], cargs[p][2], cargs[p][3])]
    /\ cpc' = [cpc EXCEPT ![p] = "set"]
    /\ UNCHANGED <<eval_vars, cache, cargs, cret, ccalls, chit>>

CallerSet(p) ==
    /\ cpc[p] = "set"
    /\ cache' = IF cval[p].ok
                THEN cache_set(cache, CacheKey(cargs[p][1], cargs[p][2], cargs[p][3]),
                               cval[p].val)
                ELSE cache
    /\ cret' = [cret EXCEPT ![p] = cval[p]]
    /\ ccalls' = [ccalls EXCEPT ![p] = @ + 1]
    /\ chit' = [chit EXCEPT ![p] = FALSE]
    /\ cpc' = [cpc EXCEPT ![p] = "idle"]
    /\ UNCHANGED <<eval_vars, cargs, cval>>

NextCache ==
    \/ \E p \in Callers, in \in BuildInputs : CallerStart(p, in)
    \/ \E p \in Callers : CallerGet(p)
    \/ \E p \in Callers : CallerBody(p)
    \/ \E p \in Callers : CallerSet(p)

SpecCache == Init /\ [][NextCache]_vars

(***************************************************************************)
(* Properties.                                                             *)
(***************************************************************************)
Returned == pc = "done"
Succeeded == pc = "done" /\ outcome = "Ok"
Dispatched == Succeeded /\ result # VBoolean(FALSE)

\* the paths whose final value is not the original one
Changed == DOMAIN vars_diff_of(context, original_context)

IsExplicit(a) ==
    \/ a.action \in {"Custom", "ForceTriggerRoutine"}
    \/ a.action = "ActivateScene" /\ ~a.device_keys.some
IsDiffScene(a) == a.action = "ActivateScene" /\ a.device_keys.some
IsDiffState(a) == a.action = "SetDeviceState"

\* 1: explicit command, 2: diff-derived scene activation, 3: state update
Class(a) == IF IsExplicit(a) THEN 1 ELSE IF IsDiffScene(a) THEN 2 ELSE 3

\* C1: an evaluation whose expression result is Boolean(false) returns Ok
\* and has published no action, whatever built-ins were called and whatever
\* variables were assigned.
C1_FalsePublishesNothing ==
    result = VBoolean(FALSE) => (Succeeded /\ event_tx = <<>>)

\* a false result after two built-in calls and a changed scene path
C1_Witness ==
    /\ result = VBoolean(FALSE) /\ Returned
    /\ Len(called) >= 2
    /\ P_lamp_scene \in Changed

\* the kind and the id of the action a built-in call stands for
KindOfCall(c) ==
    CASE c.fn = "activate_scene" -> "ActivateScene"
      [] c.fn = "custom_action" -> "Custom"
      [] c.fn = "trigger_routine" -> "ForceTriggerRoutine"
IdOfCall(c) == IF c.fn = "activate_scene" THEN c.arg.v ELSE c.arg.v[1].v

ExplicitSent == {i \in DOMAIN event_tx : IsExplicit(event_tx[i])}
ResolvedScenes ==
    {i \in DOMAIN scenes_diff :
        /\ find_device_by_path(devices, scenes_diff[i][1]).some
        /\ scenes_diff[i][2].t = "String"}
ResolvedStates ==
    {i \in DOMAIN state_diff :
        LET d == find_device_by_path(devices, state_diff[i][1]) IN
        d.some /\ device_set_value(devices[d.val], state_diff[i][2]).ok}

\* C2: the channel holds the explicit commands in call order, then the
\* diff-derived scene activations, then the diff-derived state updates;
\* after a successful non-false evaluation every built-in call has exactly
\* one action and every resolved match of the diff has one.
C2_DispatchOrder ==
    /\ \A i, j \in DOMAIN event_tx : i < j => Class(event_tx[i]) <= Class(event_tx[j])
    /\ Cardinality(ExplicitSent) <= Len(called)
    /\ \A i \in ExplicitSent :
          /\ event_tx[i].action = KindOfCall(called[i])
          /\ event_tx[i].id = IdOfCall(called[i])
    /\ Dispatched =>
          /\ Cardinality(ExplicitSent) = Len(called)
          /\ Cardinality({i \in DOMAIN event_tx : IsDiffScene(event_tx[i])})
                = Cardinality(ResolvedScenes)
          /\ Cardinality({i \in DOMAIN event_tx : IsDiffState(event_tx[i])})
                = Cardinality(ResolvedStates)

\* a built-in call, a diff-derived scene activation and a state update
C2_Witness ==
    /\ Dispatched
    /\ Len(called) >= 1
    /\ \E i, j \in DOMAIN event_tx : IsDiffScene(event_tx[i]) /\ IsDiffState(event_tx[j])

\* C3: when translating the queued commands fails on group_keys, the call
\* returns a failure and nothing at all has been published.
C3_NoPartialDispatch ==
    failure = "group_keys" => (outcome = "Err" /\ event_tx = <<>>)

\* C4: when evaluating the expression fails, the call returns a failure and
\* publishes nothing, whatever was queued or assigned before.
C4_EvalFailurePublishesNothing ==
    failure = "eval" => (Returned /\ outcome = "Err" /\ event_tx = <<>>)

\* a failing built-in call after a queued command and a changed variable
C4_Witness ==
    /\ failure = "eval" /\ Returned
    /\ failed.fn = "activate_scene"
    /\ Len(called) >= 1
    /\ Changed # {}

\* the argument shapes the built-ins are documented with
IsStrings(value) ==
    value.t = "Tuple" /\ \A i \in DOMAIN value.v : value.v[i].t = "String"
DocumentedShape(c) ==
    CASE c.fn = "activate_scene" -> c.arg.t = "String"
      [] c.fn = "custom_action" ->
            /\ c.arg.t = "Tuple" /\ Len(c.arg.v) = 2
            /\ c.arg.v[1].t = "String" /\ IsStrings(c.arg.v[2])
      [] c.fn = "trigger_routine" -> c.arg.t = "String"
      [] OTHER -> FALSE

\* C5: a built-in called with its documented argument shape never fails and
\* queues exactly one command of its kind.
C5_BuiltinsEnqueue ==
    /\ ~DocumentedShape(failed)
    /\ Len(actions) = Len(called)
    /\ \A i \in DOMAIN called :
          DocumentedShape(called[i]) =>
             /\ actions[i].k = (IF called[i].fn = "custom_action" THEN "Custom"
                                ELSE KindOfCall(called[i]))
             /\ actions[i].a = (IF called[i].fn = "custom_action"
                                THEN called[i].arg.v[1].v ELSE called[i].arg.v)

\* what a call of state_to_eval_context with arguments `in` has to return
NamespaceOf(in) == build_context(in[1], in[2], in[3])
HasReturned(p) == cpc[p] = "idle" /\ ccalls[p] > 0

\* C6: under any interleaving of overlapping calls, every call returns the
\* namespace built from its own (devices, scenes, groups) triple, and calls
\* with equal triples return equal namespaces.
C6_CacheServesOwnInputs ==
    /\ \A p \in Callers : HasReturned(p) => cret[p] = NamespaceOf(cargs[p])
    /\ \A p, q \in Callers :
          (HasReturned(p) /\ HasReturned(q) /\ cargs[p] = cargs[q]) => cret[p] = cret[q]

\* a caller was served from the cache, the other caller missed with another
\* triple, and the slot has been taken over by that other triple since
C6_Witness ==
    /\ HasReturned(1) /\ chit[1] /\ ccalls[1] = 2
    /\ HasReturned(2) /\ ~chit[2] /\ cargs[2] # cargs[1]
    /\ cache.full /\ cache.key = CacheKey(cargs[2][1], cargs[2][2], cargs[2][3])

\* C7: no action is sent while a lock is held.
C7_NoLockAtPublish ==
    \A i \in DOMAIN send_locks : send_locks[i] = "unlocked"

\* the diff has been computed
DiffTaken == pc \in {"scenes", "states"} \/ Dispatched

\* equal as values: the same boolean, the same number, the same string
SameValue(a, b) ==
    \/ a = b
    \/ a.t \in {"Int", "Float"} /\ b.t \in {"Int", "Float"} /\ a.v = b.v

\* C8: the diff holds exactly the paths of the final namespace whose value
\* differs from the original value at the same path (or that are new), each
\* with its final value.
C8_DiffExact ==
    DiffTaken =>
       /\ DOMAIN vars_diff =
             {p \in DOMAIN context :
                 p \notin DOMAIN original_context
                    \/ ~SameValue(context[p], original_context[p])}
       /\ \A p \in DOMAIN vars_diff : vars_diff[p] = context[p]

\* the expression was evaluated to a result other than Boolean(false) and
\* the call has returned
EvaluatedAndReturned ==
    Returned /\ failure \notin {"build", "eval"} /\ result # VBoolean(FALSE)

ScenePathOf(d) ==
    Dot(Dot(Dot(S_devices, devices[d].integration_id), name_to_evalexpr(devices[d].name)),
        S_scene)

\* C9: an expression that only changes devices.i.n.scene of a registered
\* device d succeeds and publishes exactly ActivateScene{s, [key of d], none}
\* when the new value is a string s, and nothing when it is not a string.
C9_SceneViaAssignment ==
    \A d \in DOMAIN devices :
       (EvaluatedAndReturned /\ called = <<>> /\ Changed = {ScenePathOf(d)}) =>
          /\ outcome = "Ok"
          /\ event_tx = IF context[ScenePathOf(d)].t = "String"
                        THEN <<ActionActivateScene(context[ScenePathOf(d)].v,
                                                   Some(<<d>>), None)>>
                        ELSE <<>>

\* how many queued commands the drain loop has sent
Drained ==
    IF pc = "drain" \/ failure = "group_keys" THEN idx - 1
    ELSE IF DiffTaken \/ failure = "encode" THEN Len(actions)
    ELSE 0

\* C10: the action of an explicit activate_scene call has no device_keys and
\* carries the group ids the variable group_keys holds at the end of the
\* evaluation, or none when there is no such variable.
C10_GroupKeys ==
    /\ Drained <= Len(event_tx)
    /\ \A i \in 1..Drained :
          called[i].fn = "activate_scene" =>
             IF S_group_keys \notin DOMAIN context
             THEN event_tx[i] = ActionActivateScene(called[i].arg.v, None, None)
             ELSE /\ IsStrings(context[S_group_keys])
                  /\ event_tx[i] = ActionActivateScene(called[i].arg.v, None,
                                      Some([j \in DOMAIN context[S_group_keys].v |->
                                               context[S_group_keys].v[j].v]))

\* group_keys was assigned after the activate_scene call whose action
\* carries it
C10_Witness ==
    /\ Dispatched
    /\ \E i \in DOMAIN called :
          /\ called[i].fn = "activate_scene"
          /\ S_group_keys \in DOMAIN assigned /\ assigned[S_group_keys] >= i
          /\ event_tx[i].group_keys = Some(<<S_kitchen, S_hall>>)

\* a matched path of the diff names a registered device: some device has the
\* integration id of its second segment and the normalized name of its third
NamesDevice(path, d) ==
    /\ devices[d].integration_id = path[2]
    /\ name_to_evalexpr(devices[d].name) = path[3]
Unresolvable(path) == ~\E d \in DOMAIN devices : NamesDevice(path, d)

MissedScenes == {i \in DOMAIN scenes_diff : Unresolvable(scenes_diff[i][1])}
MissedStates == {i \in DOMAIN state_diff : Unresolvable(state_diff[i][1])}

\* C11: a changed scene or state path that names no registered device is a
\* silent miss: no action is published for it, the call still returns Ok,
\* and the explicit commands and the diff-derived actions of the paths that
\* do name a device are published all the same.
C11_SilentMiss ==
    /\ \A i \in DOMAIN event_tx :
          /\ IsDiffScene(event_tx[i]) =>
                \E j \in DOMAIN scenes_diff \ MissedScenes :
                   NamesDevice(scenes_diff[j][1], event_tx[i].device_keys.val[1])
          /\ IsDiffState(event_tx[i]) =>
                \E j \in DOMAIN state_diff \ MissedStates, d \in DOMAIN devices :
                   /\ NamesDevice(state_diff[j][1], d)
                   /\ event_tx[i].device.name = devices[d].name
    /\ (EvaluatedAndReturned /\ failure \notin {"group_keys", "encode"}) =>
          /\ outcome = "Ok"
          /\ Cardinality(ExplicitSent) = Len(called)
          /\ Cardinality({i \in DOMAIN event_tx : IsDiffScene(event_tx[i])})
                = Cardinality({j \in DOMAIN scenes_diff \ MissedScenes :
                                  scenes_diff[j][2].t = "String"})
          /\ Cardinality({i \in DOMAIN event_tx : IsDiffState(event_tx[i])})
                = Cardinality({j \in DOMAIN state_diff \ MissedStates :
                                  \E d \in DOMAIN devices :
                                     /\ NamesDevice(state_diff[j][1], d)
                                     /\ device_set_value(devices[d], state_diff[j][2]).ok})

\* a scene path and a state path of a device that is not registered were
\* changed together with the scene of the lamp, whose action is published
C11_Witness ==
    /\ Dispatched
    /\ MissedScenes # {} /\ MissedStates # {}
    /\ event_tx = <<ActionActivateScene(S_evening, Some(<<K1>>), None)>>

\* the value at a path of member names in a JSON tree
RECURSIVE ValueAt(_, _, _)
ValueAt(node, path, n) ==
    IF n > Len(path) THEN node ELSE ValueAt(node.v[path[n]], path, n + 1)

StateSent == SelectSeq(event_tx, IsDiffState)

\* how many matches of state_diff the state loop has gone through
StatesDone ==
    IF pc = "states" THEN idx - 1
    ELSE IF EvaluatedAndReturned /\ failure \notin {"group_keys", "encode"}
         THEN Len(state_diff) ELSE 0

\* the matches gone through whose device resolves and accepts the state
AppliedStates ==
    {j \in 1..StatesDone :
        \E d \in DOMAIN devices :
           /\ NamesDevice(state_diff[j][1], d)
           /\ device_set_value(devices[d], state_diff[j][2]).ok}
NthApplied(k) ==
    CHOOSE j \in AppliedStates : Cardinality({i \in AppliedStates : i < j}) = k - 1

\* C12: every state match carries the value found at devices.i.n.state in
\* the diff tree; each match whose device resolves and accepts that value
\* as its whole state has exactly one SetDeviceState with the updated
\* device, a match whose device rejects it has none, the matches after it
\* are still gone through, and the call returns Ok.
C12_StateDiffApplied ==
    /\ \A j \in DOMAIN state_diff :
          state_diff[j][2] = ValueAt(vars_diff_map, state_diff[j][1], 1)
    /\ Len(StateSent) = Cardinality(AppliedStates)
    /\ \A k \in DOMAIN StateSent :
          LET j == NthApplied(k)
              d == CHOOSE d \in DOMAIN devices : NamesDevice(state_diff[j][1], d)
          IN StateSent[k] =
                ActionSetDeviceState(device_set_value(devices[d], state_diff[j][2]).val)
    /\ (EvaluatedAndReturned /\ failure \notin {"group_keys", "encode"}) => outcome = "Ok"

\* the lamp rejects a state that is not an object, and the state of the TV,
\* the match after it, is applied and published
C12_Witness ==
    /\ Dispatched
    /\ Len(state_diff) = 2
    /\ state_diff[1] = << <<S_devices, S_hue, S_lamp_1, S_state>>, JNumber(1) >>
    /\ event_tx = <<ActionSetDeviceState(
                      Device(S_TV, S_ikea,
                             JObject((S_state :> JObject((S_on :> JBool(TRUE)))))))>>

\* custom_action(i, parts) with a string i and a tuple parts of strings
IsCustomOfStrings(arg) ==
    /\ arg.t = "Tuple" /\ Len(arg.v) = 2
    /\ arg.v[1].t = "String" /\ IsStrings(arg.v[2])

\* the first n members of a tuple of strings, one after the other
RECURSIVE Concatenation(_, _)
Concatenation(parts, n) ==
    IF n = 0 THEN <<>> ELSE Concatenation(parts, n - 1) \o parts[n].v

\* C13: custom_action(i, parts) with a string i and a tuple parts of strings
\* never fails and queues exactly one Custom command with integration id i
\* and the members of parts concatenated in order, nothing between them, as
\* payload; with a member that is not a string the evaluation fails and
\* nothing is queued for the call.
C13_CustomPayload ==
    /\ Len(actions) = Len(called)
    /\ \A i \in DOMAIN called :
          called[i].fn = "custom_action" =>
             /\ IsCustomOfStrings(called[i].arg)
             /\ actions[i] = EvalCustom(called[i].arg.v[1].v,
                                        Concatenation(called[i].arg.v[2].v,
                                                      Len(called[i].arg.v[2].v)))
    /\ failed.fn = "custom_action" =>
          /\ ~IsCustomOfStrings(failed.arg)
          /\ Returned /\ outcome = "Err" /\ event_tx = <<>>

\* custom_action("ikea", ("x", "on")) queued payload "xon", and then
\* custom_action("ikea", ("x", 1)) failed the evaluation
C13_Witness ==
    /\ Len(called) = 1 /\ called[1].fn = "custom_action"
    /\ actions = <<EvalCustom(S_ikea, <<"x", "o", "n">>)>>
    /\ failed = Call("custom_action",
                     VTuple(<<VString(S_ikea), VTuple(<<VString(S_x), VInt(1)>>)>>))
    /\ outcome = "Err"

\* the leaves of a JSON value: (segments leading to the leaf, scalar), an
\* element of an array having its index as segment
\* the segment of the i-th element of an array: its index, from 0
IndexSegment(i) == <<Digits[i]>>

RECURSIVE Leaves(_)
Leaves(value) ==
    CASE value.t = "Object" ->
            UNION {{<< <<k>> \o l[1], l[2] >> : l \in Leaves(value.v[k])} : k \in DOMAIN value.v}
      [] value.t = "Array" ->
            UNION {{<< <<IndexSegment(i)>> \o l[1], l[2] >> : l \in Leaves(value.v[i])} :
                      i \in DOMAIN value.v}
      [] OTHER -> {<< <<>>, value >>}

\* the name lower-cased, every space replaced by an underscore
Normalized(name) ==
    [i \in 1..Len(name) |-> IF name[i] = " " THEN "_" ELSE to_lowercase_char(name[i])]

\* the segments joined by dots
RECURSIVE Dotted(_)
Dotted(segments) ==
    IF Len(segments) = 1 THEN segments[1]
    ELSE segments[1] \o <<".">> \o Dotted(Tail(segments))

DevicePrefix(device) == <<S_devices, device.integration_id, Normalized(device.name)>>
LeafPath(device, leaf) == Dotted(DevicePrefix(device) \o leaf[1])

\* a scalar of a device value as a value of the namespace
ScalarOf(leaf) ==
    CASE leaf.t = "Bool" -> VBoolean(leaf.v)
      [] leaf.t = "Number" -> VFloat(leaf.v[1])
      [] leaf.t = "String" -> VString(leaf.v)
      [] leaf.t = "Null" -> VEmpty

IsScalar(value) == value.t \in {"Boolean", "Float", "Int", "String", "Empty"}

\* the calls of state_to_eval_context that returned a namespace
Built == {p \in Callers : HasReturned(p) /\ cret[p].ok}

\* the leaf the builder writes last at a path: the leaf of the last device,
\* in the key order of the registry, that has a leaf there
LastWritten(devs, path) ==
    LET holders == {d \in DOMAIN devs :
                       \E l \in Leaves(devs[d].value) : LeafPath(devs[d], l) = path}
        last == CHOOSE d \in holders : \A e \in holders \ {d} : StrLess(e, d)
    IN (CHOOSE l \in Leaves(devs[last].value) : LeafPath(devs[last], l) = path)[2]

\* C14 as stated: every leaf of the value of every device is in the built
\* namespace at devices.i.n.<leaf path> with its value, and every value of
\* the namespace is a scalar.
C14_DeviceLeaves ==
    \A p \in Built :
       /\ \A d \in DOMAIN cargs[p][1] :
             \A l \in Leaves(cargs[p][1][d].value) :
                /\ LeafPath(cargs[p][1][d], l) \in DOMAIN cret[p].val
                /\ cret[p].val[LeafPath(cargs[p][1][d], l)] = ScalarOf(l[2])
       /\ \A path \in DOMAIN cret[p].val : IsScalar(cret[p].val[path])

\* C14, amended: every leaf path of every device is a path of the built
\* namespace, which holds there the leaf written last at that path (the
\* devices are flattened in key order), and every value of the namespace is
\* a scalar.
C14_DeviceLeavesLastWritten ==
    \A p \in Built :
       /\ \A d \in DOMAIN cargs[p][1] :
             \A l \in Leaves(cargs[p][1][d].value) :
                /\ LeafPath(cargs[p][1][d], l) \in DOMAIN cret[p].val
                /\ cret[p].val[LeafPath(cargs[p][1][d], l)]
                      = ScalarOf(LastWritten(cargs[p][1], LeafPath(cargs[p][1][d], l)))
       /\ \A path \in DOMAIN cret[p].val : IsScalar(cret[p].val[path])

\* a namespace was built from two devices of the same normalized name that
\* share the leaf state.on; it holds the leaf of the second device there
\* and the leaf below an array element at tags.1.bri
C14_Witness ==
    \E p \in Built :
       /\ cargs[p][1] = DevicesE
       /\ cret[p].val[Dot(Dot(Dot(P_lamp, S_tags), <<"1">>), S_bri)] = VFloat(2)
       /\ cret[p].val[P_lamp_on] = VBoolean(TRUE)

StartsWith(path, prefix) ==
    Len(path) >= Len(prefix) /\ SubSeq(path, 1, Len(prefix)) = prefix

\* the entries of a namespace below a dotted prefix
EntriesUnder(ns, prefix) ==
    {<<path, ns[path]>> : path \in {q \in DOMAIN ns : StartsWith(q, prefix \o <<".">>)}}

\* the entries the leaves of one device make
EntriesOf(device) ==
    {<<LeafPath(device, l), ScalarOf(l[2])>> : l \in Leaves(device.value)}

\* C15: when two distinct devices have the same integration id and the same
\* normalized name, the entries of the built namespace below their common
\* prefix are the leaves of exactly one of the two, never leaves of both.
C15_NoMixture ==
    \A p \in Built :
       \A d1, d2 \in DOMAIN cargs[p][1] :
          (d1 # d2 /\ DevicePrefix(cargs[p][1][d1]) = DevicePrefix(cargs[p][1][d2])) =>
             EntriesUnder(cret[p].val, Dotted(DevicePrefix(cargs[p][1][d1])))
                \in {EntriesOf(cargs[p][1][d1]), EntriesOf(cargs[p][1][d2])}

\* no two devices of the registry have the same integration id and the same
\* normalized name
UniqueNames ==
    \A d1, d2 \in DOMAIN devices :
       DevicePrefix(devices[d1]) = DevicePrefix(devices[d2]) => d1 = d2

\* the match of a diff query at a dotted path resolves to device d
ResolvesTo(matches, path, d) ==
    \E i \in DOMAIN matches :
       /\ Dotted(matches[i][1]) = path
       /\ find_device_by_path(devices, matches[i][1]) = Some(d)

\* C16: with names unique after normalization, a changed path that the
\* builder rooted at the prefix of a device d and that ends in .scene or
\* lies at or under .state is matched by devices.*.*.scene or
\* devices.*.*.state, and the matched path resolves to d.
C16_RoundTrip ==
    (DiffTaken /\ UniqueNames) =>
       \A d \in DOMAIN devices :
          LET prefix == Dotted(DevicePrefix(devices[d])) IN
          \A path \in DOMAIN vars_diff \cap DOMAIN original_context :
             /\ path = Dot(prefix, S_scene) => ResolvesTo(scenes_diff, path, d)
             /\ (path = Dot(prefix, S_state) \/ StartsWith(path, Dot(prefix, S_state) \o <<".">>))
                   => ResolvesTo(state_diff, Dot(prefix, S_state), d)

\* the namespace state_to_eval_context builds from the inputs of the
\* evaluation, without any cache
FreshNamespace == build_context(devices, flattened_scenes, flattened_groups).val

\* C17: an evaluation starts from the namespace freshly built from its own
\* inputs, whatever the evaluations before it assigned, created or queued:
\* its original namespace is the fresh one, it starts with no queued
\* command and no published action, and its diff holds only paths it
\* assigned itself.
C17_Isolation ==
    /\ (pc # "build" /\ failure # "build") => original_context = FreshNamespace
    /\ (pc = "eval" /\ nstmts = 0) =>
          (context = FreshNamespace /\ actions = <<>> /\ event_tx = <<>>)
    /\ Len(actions) = Len(called)
    /\ Changed \subseteq DOMAIN assigned
    /\ DOMAIN vars_diff \subseteq DOMAIN assigned
    /\ Len(event_tx) <= Len(called) + Len(scenes_diff) + Len(state_diff)

\* the evaluation before assigned the scene of the lamp, created group_keys
\* and queued a command; this one, of the same inputs and served from the
\* cache, evaluated `true` and returned without publishing anything
C17_Witness ==
    /\ rerun
    /\ Dispatched /\ nstmts = 0
    /\ S_group_keys \notin DOMAIN context
    /\ event_tx = <<>>

\* the entries the overrides of the scenes make for the devices that are
\* registered, the scene id being written into the path by `id`
SceneEntries(devs, scenes, id(_)) ==
    UNION {UNION {{<<Dotted(<<S_scenes, id(s), devs[k].integration_id,
                              Normalized(devs[k].name)>> \o l[1]),
                     ScalarOf(l[2])>> : l \in Leaves(scenes[s][k])} :
                     k \in DOMAIN scenes[s] \cap DOMAIN devs} :
              s \in DOMAIN scenes}

AsWritten(scene_id) == scene_id

\* some scene overrides a device key that is not in the registry
AbsentOverride(p) ==
    \E s \in DOMAIN cargs[p][2] : DOMAIN cargs[p][2][s] \ DOMAIN cargs[p][1] # {}

\* the build of the same devices and groups without any scene
WithoutScenes(p) == build_context(cargs[p][1], NoScenes, cargs[p][3])

SkipsAbsent(p, id(_)) ==
    /\ cret[p].ok
    /\ EntriesUnder(cret[p].val, S_scenes) = SceneEntries(cargs[p][1], cargs[p][2], id)
    /\ EntriesUnder(cret[p].val, S_devices) = EntriesUnder(WithoutScenes(p).val, S_devices)

\* C18 as stated: an override for a device key that is not registered adds
\* no entry and does not fail the build; the overrides of the registered
\* devices are the entries under scenes.<scene_id>.<integration_id>.
\* <normalized_name>, and the device entries are those of a build without
\* scenes.
C18_AbsentOverrideSkipped ==
    \A p \in Callers :
       (HasReturned(p) /\ AbsentOverride(p) /\ WithoutScenes(p).ok) =>
          SkipsAbsent(p, AsWritten)

\* C18, amended: the same, the scene id being normalized like a device name
\* (lower-cased, spaces replaced by underscores) in the path.
C18_AbsentOverrideSkippedNormalizedId ==
    \A p \in Callers :
       (HasReturned(p) /\ AbsentOverride(p) /\ WithoutScenes(p).ok) =>
          SkipsAbsent(p, Normalized)

\* scene "Day" overrides the lamp and the unregistered hue/9: the namespace
\* holds the override of the lamp under scenes.day and nothing else there
C18_Witness ==
    \E p \in Built :
       /\ cargs[p][2] = ScenesB /\ K9 \notin DOMAIN cargs[p][1]
       /\ EntriesUnder(cret[p].val, S_scenes) =
             {<<Dotted(<<S_scenes, S_day, S_hue, S_lamp_1, S_state, S_on>>), VBoolean(TRUE)>>}

\* a path with a `~` that is not followed by 0 or 1 is no JSON pointer
BadPath(path) ==
    \E i \in 1..Len(path) :
       path[i] = "~" /\ (i = Len(path) \/ path[i + 1] \notin {"0", "1"})
NonFinite(value) == value.t = "Float" /\ value.v >= INFINITY

\* a changed variable cannot be encoded into the diff tree
Unencodable == \E path \in Changed : BadPath(path) \/ NonFinite(context[path])

\* the queued commands have been translated and sent
PastDrain ==
    \/ pc \in {"scenes", "states"}
    \/ Returned /\ failure \notin {"build", "eval", "group_keys"} /\ result # VBoolean(FALSE)

\* C19: when a changed path is no structural pointer or a changed value has
\* no JSON form, the call returns a failure right after the queued commands
\* and publishes no diff-derived action, neither an ActivateScene with
\* device_keys nor a SetDeviceState, whatever else was changed.
C19_EncodeFailureAborts ==
    (PastDrain /\ Unencodable) =>
       /\ Returned /\ outcome = "Err"
       /\ \A i \in DOMAIN event_tx : IsExplicit(event_tx[i])

\* the brightness of the lamp was set to a division by zero and its scene to
\* "evening" after an activate_scene call: the call failed, and only the
\* explicit command was published
C19_Witness ==
    /\ Returned /\ outcome = "Err"
    /\ NonFinite(context[P_lamp_bri])
    /\ P_lamp_scene \in Changed
    /\ Len(called) = 1 /\ Len(event_tx) = 1 /\ IsExplicit(event_tx[1])

\* the same with a changed variable whose name is no pointer token
C19_WitnessBadPath ==
    /\ Returned /\ outcome = "Err"
    /\ P_tilde \in Changed /\ P_lamp_scene \in Changed
    /\ event_tx = <<>>

====
